---- MODULE Spec2Model ----
(***************************************************************************)
(* s-ais: one run of ServerAIS.synchronize (lib/s-ais.js) together with    *)
(* MarineTrafficService.getLatestPositionTime (marinetraffic-service.js).  *)
(*                                                                         *)
(* JavaScript values are modelled as follows.                              *)
(*   - undefined is the string Undefined; every checkpoint value is a      *)
(*     string (a date token, Sentinel, InvalidDate or Undefined).          *)
(*   - what xml2js hands back for a list of same-named children is a       *)
(*     record [kind, items]: kind "undefined" (no child), "object" (one    *)
(*     child, because of explicitArray: false) or "array" (two or more).   *)
(*   - a promise result is a record [err, value]; err = NoError when the   *)
(*     promise resolved.                                                   *)
(***************************************************************************)
EXTENDS Integers, Sequences, FiniteSets, TLC

VARIABLES
    pc,            \* where synchronize stands
    env,           \* process.env: which settings are present
    stdout,        \* the progress tokens written so far
    httpResult,    \* what the vessel-detail endpoint answered
    lookupCalls,   \* calls of rp(url)
    lastMTUpdate,  \* synchronize's lastMTUpdate
    feedCalls,     \* calls of InReachService.getMapShareKML
    feedArg,       \* the lastEntry argument of the latest such call
    vesselKml,     \* synchronize's vesselKml (the route document)
    extraction,    \* state of the promise of parseKmlToPlacemarks
    placemarks,    \* synchronize's placemarks
    sent,          \* the emails handed to sendgrid.send, in order
    delivery,      \* what the email transport reported
    error          \* the error synchronize rejected with

vars == <<pc, env, stdout, httpResult, lookupCalls, lastMTUpdate, feedCalls,
          feedArg, vesselKml, extraction, placemarks, sent, delivery, error>>

----------------------------------------------------------------------------
(* Bounds and plain values *)

MaxPlacemarks == 2

Idx == 1..MaxPlacemarks

Undefined == "<undefined>"
NoError == "<none>"
InvalidDate == "Invalid Date"
Sentinel == "new Date(2010,1,1)"

DEFAULT_REPORT_RECEIVER == "report@marinetraffic.com"

\* The property names placemarkXmlToVo asks for, in the order it asks.
Required ==
    << "Id", "IMEI", "Time UTC", "Time", "Latitude", "Longitude",
       "Elevation", "Velocity", "Course", "Valid GPS Fix" >>

RequiredNames == { Required[k] : k \in 1..Len(Required) }

Resolve(v) == [err |-> NoError, value |-> v]
Reject(e) == [err |-> e, value |-> <<>>]

----------------------------------------------------------------------------
(* The route documents the feed may return *)

TimeUTCValue(i) == "2024-03-0" \o ToString(i) \o "T10:00:00"
VelocityValue(i) == ToString(i) \o "0 km/h"
CourseValue(i) == ToString(i) \o ".9"

\* The text of <value> of the Data child called name in the i-th placemark.
PropValue(name, i) ==
    CASE name = "Time UTC" -> TimeUTCValue(i)
      [] name = "Velocity" -> VelocityValue(i)
      [] name = "Course" -> CourseValue(i)
      [] name = "Valid GPS Fix" -> "True"
      [] OTHER -> name \o "-" \o ToString(i)

DataEntry(name, i) == [name |-> name, value |-> PropValue(name, i)]

\* The Data children of the i-th placemark: all required ones but `missing`.
DataBut(missing, i) ==
    LET keep(n) == n # missing
        names == SelectSeq(Required, keep)
    IN  [k \in 1..Len(names) |-> DataEntry(names[k], i)]

\* A <Placemark> element as it stands in the document.
PlacemarkXml(i, ext, data, vis) ==
    [index |-> i, extendeddata |-> ext, data |-> data, visibility |-> vis]

PlacemarkShapes(i) ==
    \* no ExtendedData at all (the route line placemark)
    { PlacemarkXml(i, FALSE, <<>>, "True") }
    \* ExtendedData with every required property, with or without visibility
    \cup { PlacemarkXml(i, TRUE, DataBut(Undefined, i), v) : v \in {"True", Undefined} }
    \* ExtendedData lacking one required property
    \cup { PlacemarkXml(i, TRUE, DataBut(m, i), "True") : m \in RequiredNames }
    \* ExtendedData with a single Data child
    \cup { PlacemarkXml(i, TRUE, <<DataEntry("Id", i)>>, "True") }

PlacemarkSeqs ==
    UNION { { s \in [1..n -> UNION { PlacemarkShapes(i) : i \in Idx }] :
                \A i \in 1..n : s[i] \in PlacemarkShapes(i) } : n \in 0..MaxPlacemarks }

Kml(level, pms) == [level |-> level, placemarks |-> pms]

NoKml == Kml("none", <<>>)

RouteDocuments ==
    { Kml(l, <<>>) : l \in {"malformed", "empty", "nodocument", "nofolder"} }
    \cup { Kml("folder", s) : s \in PlacemarkSeqs }

----------------------------------------------------------------------------
(* xml2js with explicitArray: false *)

\* What the parser leaves under a tag for the list of children of that name:
\* nothing for none, the child itself for one, an array only for two or more.
Collapse(children) ==
    IF Len(children) = 0 THEN [kind |-> "undefined", items |-> <<>>]
    ELSE IF Len(children) = 1 THEN [kind |-> "object", items |-> children]
    ELSE [kind |-> "array", items |-> children]

\* A parsed placemark. An ExtendedData element without children parses to
\* the empty string, which is falsy.
ParsedPlacemark(p) ==
    [index |-> p.index,
     extendeddata |-> p.extendeddata /\ Len(p.data) > 0,
     data |-> Collapse(p.data),
     visibility |-> p.visibility]

\* The promise around parseString: rejects on a parse error, otherwise
\* resolves with the content of the root element (explicitRoot: false).
xml2jsParse(kml) ==
    IF kml.level = "malformed" THEN Reject("XML parse error")
    ELSE Resolve(
        [truthy |-> kml.level # "empty",
         document |-> kml.level \in {"nofolder", "folder"},
         folder |-> kml.level = "folder",
         placemark |->
            Collapse([k \in 1..Len(kml.placemarks) |->
                        ParsedPlacemark(kml.placemarks[k])])])

----------------------------------------------------------------------------
(* parseKmlToPlacemarks *)

\* new Error('Placemark does not have property: ' + name)
MissingPropertyError(name) == "Placemark does not have property: " \o name

\* what placemark.visibility.toLowerCase() throws when visibility is undefined
VisibilityTypeError == "TypeError: Cannot read property 'toLowerCase' of undefined"

nonExtendedData(placemark) == placemark.extendeddata

\* What getProperty(placemark, name) throws, NoError when it returns.
getPropertyError(placemark, name) ==
    IF placemark.data.kind # "array"
    THEN "TypeError: placemark.extendeddata.data.filter is not a function"
    ELSE LET same(obj) == obj.name = name
             found == SelectSeq(placemark.data.items, same)
         IN  IF Len(found) = 0 \/ found[Len(found)].value = ""
             THEN MissingPropertyError(name)
             ELSE NoError

\* What getProperty(placemark, name) returns: the value of the last match.
getProperty(placemark, name) ==
    LET same(obj) == obj.name = name
        found == SelectSeq(placemark.data.items, same)
    IN  found[Len(found)].value

toLowerCase(s) ==
    CASE s = "True" -> "true"
      [] s = "False" -> "false"
      [] OTHER -> s

\* What placemarkXmlToVo(placemark) throws: the object literal is evaluated
\* top to bottom, so the first failing field decides.
placemarkXmlToVoError(placemark) ==
    LET failing == { k \in 1..Len(Required) :
                        getPropertyError(placemark, Required[k]) # NoError }
    IN  IF failing # {}
        THEN getPropertyError(placemark,
                Required[CHOOSE k \in failing : \A j \in failing : k <= j])
        ELSE IF placemark.visibility = Undefined
        THEN VisibilityTypeError
        ELSE NoError

placemarkXmlToVo(placemark) ==
    [id |-> getProperty(placemark, "Id"),
     imei |-> getProperty(placemark, "IMEI"),
     timeUTC |-> getProperty(placemark, "Time UTC"),
     time |-> getProperty(placemark, "Time"),
     latitude |-> getProperty(placemark, "Latitude"),
     longitude |-> getProperty(placemark, "Longitude"),
     elevation |-> getProperty(placemark, "Elevation"),
     velocity |-> getProperty(placemark, "Velocity"),
     course |-> getProperty(placemark, "Course"),
     validGpsFix |-> toLowerCase(getProperty(placemark, "Valid GPS Fix")),
     visibility |-> toLowerCase(placemark.visibility)]

\* The condition of the conditional expression that guards the descent.
PathPresent(blob) ==
    blob.truthy /\ blob.document /\ blob.folder
        /\ blob.placemark.kind # "undefined"

\* blob.document.folder.placemark.filter(nonExtendedData).map(placemarkXmlToVo)
FilterMap(blob) ==
    IF ~blob.truthy \/ ~blob.document \/ ~blob.folder
    THEN Reject("TypeError: Cannot read property of undefined")
    ELSE IF blob.placemark.kind # "array"
    THEN Reject("TypeError: blob.document.folder.placemark.filter is not a function")
    ELSE LET kept == SelectSeq(blob.placemark.items, nonExtendedData)
             failing == { k \in 1..Len(kept) :
                            placemarkXmlToVoError(kept[k]) # NoError }
         IN  IF failing # {}
             THEN Reject(placemarkXmlToVoError(
                    kept[CHOOSE k \in failing : \A j \in failing : k <= j]))
             ELSE Resolve([k \in 1..Len(kept) |-> placemarkXmlToVo(kept[k])])

\* parseKmlToPlacemarks without the guard of the descent.
parseKmlToPlacemarks_Unguarded(kml) ==
    LET parsed == xml2jsParse(kml)
    IN  IF parsed.err # NoError THEN Reject(parsed.err)
        ELSE FilterMap(parsed.value)

parseKmlToPlacemarks(kml) ==
    LET parsed == xml2jsParse(kml)
    IN  IF parsed.err # NoError THEN Reject(parsed.err)
        ELSE IF PathPresent(parsed.value) THEN FilterMap(parsed.value)
        ELSE Resolve(<<>>)

----------------------------------------------------------------------------
(* MarineTrafficService.getLatestPositionTime *)

\* What the vessel-detail endpoint may answer. times are the datetime
\* attributes of the <time> elements of the page, in page order.
HttpResponse(status, times) ==
    [kind |-> "response", statusCode |-> status, times |-> times]

NoHttp == [kind |-> "none", statusCode |-> 0, times |-> <<>>]

HttpOutcomes ==
    { HttpResponse(200, <<>>), HttpResponse(500, <<>>) }
    \cup { HttpResponse(404, t) :
            t \in { <<>>, <<"2024-03-01 09:00">>,
                    <<"2024-03-01 09:00", "2024-03-02 09:00">> } }
    \cup { [kind |-> "transportError", statusCode |-> 0, times |-> <<>>] }

\* rp(url) of request-promise-native, called with a bare url: the promise
\* resolves with the body, a string, for a 2xx answer and rejects for any
\* other status code and for a transport failure. A string has no statusCode.
rp(h) ==
    IF h.kind = "response" /\ h.statusCode >= 200 /\ h.statusCode < 300
    THEN Resolve([hasStatusCode |-> FALSE, statusCode |-> 0, times |-> h.times])
    ELSE IF h.kind = "response"
    THEN Reject("StatusCodeError")
    ELSE Reject("RequestError")

\* new Date(`${timeUTC} UTC`)
NewDateUTC(timeUTC) ==
    IF timeUTC = Undefined THEN InvalidDate ELSE timeUTC \o " UTC"

getLatestPositionTime(h) ==
    LET r == rp(h)
    IN  IF r.err # NoError THEN Undefined
        ELSE IF ~(r.value.hasStatusCode /\ r.value.statusCode = 404)
        THEN Sentinel
        ELSE LET times == r.value.times
                 timeUTC == IF Len(times) >= 2 THEN times[2] ELSE Undefined
             IN  NewDateUTC(timeUTC)

----------------------------------------------------------------------------
(* sendSelfReport: the report built from one record *)

\* data.velocity.split(' ')[0], as a number
LeadingNumber(velocity) ==
    10 * (CHOOSE k \in Idx : velocity = VelocityValue(k))

\* the factor 0.539957, in millionths
KnotsPerKmPerHr == 539957

\* kmPerHrToKnots, in millionths of a knot
kmPerHrToKnots(kmPerHr) == kmPerHr * KnotsPerKmPerHr

\* pad(data.course.split('.')[0], 3)
pad3(course) ==
    LET k == CHOOSE k \in Idx : course = CourseValue(k)
    IN  IF k < 10 THEN "00" \o ToString(k)
        ELSE IF k < 100 THEN "0" \o ToString(k)
        ELSE ToString(k)

\* moment(new Date(data.timeUTC)).format('YYYY-MM-DD HH:mm:ss')
formatTimestamp(timeUTC) ==
    LET k == CHOOSE k \in Idx : timeUTC = TimeUTCValue(k)
    IN  "2024-03-0" \o ToString(k) \o " 10:00:00"

Email(data, e) ==
    [to |-> IF e.REPORT_RECEIVER THEN "REPORT_RECEIVER" ELSE DEFAULT_REPORT_RECEIVER,
     from |-> "REPORT_SENDER",
     subject |-> "sAIS self-report",
     text |-> [MMSI |-> "REPORT_MMSI",
               LAT |-> data.latitude,
               LON |-> data.longitude,
               SPEED |-> kmPerHrToKnots(LeadingNumber(data.velocity)),
               COURSE |-> pad3(data.course),
               TIMESTAMP |-> formatTimestamp(data.timeUTC)]]

----------------------------------------------------------------------------
(* synchronize *)

Envs ==
    [REPORT_MMSI : BOOLEAN, MAPSHARE_ID : BOOLEAN,
     REPORT_SENDER : BOOLEAN, REPORT_RECEIVER : BOOLEAN]

\* What InReachService.getMapShareKML may do: fail, or return a document.
FeedOutcomes ==
    { Reject("feed error") } \cup { Resolve(d) : d \in RouteDocuments }

\* How sendgrid.send may report, through the callback: success, an error
\* while send is still on the stack of the promise executor, or an error
\* from a later turn of the event loop.
DeliveryOutcomes == { "ok", "errorInCall", "errorLater" }

DeliveryError == "sendgrid error"

\* placemarks[0] in place of the last element
FirstPlacemark(pms) == pms[1]

\* placemarks[placemarks.length - 1]
LastPlacemark(pms) == pms[Len(pms)]

Init ==
    /\ pc = "start"
    /\ env \in Envs
    /\ stdout = <<>>
    /\ httpResult = NoHttp
    /\ lookupCalls = 0
    /\ lastMTUpdate = Undefined
    /\ feedCalls = 0
    /\ feedArg = Undefined
    /\ vesselKml = NoKml
    /\ extraction = "none"
    /\ placemarks = <<>>
    /\ sent = <<>>
    /\ delivery = "none"
    /\ error = NoError

\* catch (error) { console.error(...); throw error; }
Throw(e) ==
    /\ pc' = "rejected"
    /\ error' = e

\* synchronize up to getMMSI()
GetMMSI ==
    /\ pc = "start"
    /\ stdout' = Append(stdout, "sync")
    /\ IF ~env.REPORT_MMSI
       THEN Throw("REPORT_MMSI environment variable is missing.")
       ELSE pc' = "getLatestPositionTime" /\ error' = error
    /\ UNCHANGED <<env, httpResult, lookupCalls, lastMTUpdate, feedCalls,
                   feedArg, vesselKml, extraction, placemarks, sent, delivery>>

\* await marinetraffic.getLatestPositionTime(mmsi): it never rejects
GetLatestPositionTime ==
    /\ pc = "getLatestPositionTime"
    /\ \E h \in HttpOutcomes :
        /\ httpResult' = h
        /\ lastMTUpdate' = getLatestPositionTime(h)
    /\ lookupCalls' = lookupCalls + 1
    /\ stdout' = Append(stdout, "V")
    /\ pc' = "getVesselKml"
    /\ UNCHANGED <<env, feedCalls, feedArg, vesselKml, extraction,
                   placemarks, sent, delivery, error>>

\* await this.getVesselKml(lastMTUpdate)
GetVesselKml ==
    /\ pc = "getVesselKml"
    /\ IF ~env.MAPSHARE_ID
       THEN /\ Throw("MAPSHARE_ID environment variable is missing.")
            /\ UNCHANGED <<feedCalls, feedArg, vesselKml, stdout>>
       ELSE /\ feedCalls' = feedCalls + 1
            /\ feedArg' = lastMTUpdate
            /\ \E r \in FeedOutcomes :
                IF r.err # NoError
                THEN Throw(r.err) /\ UNCHANGED <<vesselKml, stdout>>
                ELSE /\ vesselKml' = r.value
                     /\ stdout' = Append(stdout, "k")
                     /\ pc' = "parseKmlToPlacemarks"
                     /\ error' = error
    /\ UNCHANGED <<env, httpResult, lookupCalls, lastMTUpdate, extraction,
                   placemarks, sent, delivery>>

\* await this.parseKmlToPlacemarks(vesselKml), and the branch on the length
ParseKmlToPlacemarks ==
    /\ pc = "parseKmlToPlacemarks"
    /\ LET r == parseKmlToPlacemarks(vesselKml)
       IN  IF r.err # NoError
           THEN /\ extraction' = "rejected"
                /\ Throw(r.err)
                /\ UNCHANGED <<placemarks, stdout>>
           ELSE /\ extraction' = "resolved"
                /\ placemarks' = r.value
                /\ error' = error
                /\ IF Len(r.value) > 0
                   THEN /\ stdout' = stdout \o <<ToString(Len(r.value)), "@">>
                        /\ pc' = "sendSelfReport"
                   ELSE /\ stdout' = stdout \o <<ToString(Len(r.value)), "x", "\n">>
                        /\ pc' = "done"
    /\ UNCHANGED <<env, httpResult, lookupCalls, lastMTUpdate, feedCalls,
                   feedArg, vesselKml, sent, delivery>>

\* await this.sendSelfReport(lastPlacemark)
SendSelfReport ==
    /\ pc = "sendSelfReport"
    /\ IF ~env.REPORT_SENDER
       THEN /\ Throw("REPORT_SENDER environment variable is missing.")
            /\ UNCHANGED <<sent, delivery, stdout>>
       ELSE IF ~env.REPORT_MMSI
       THEN /\ Throw("REPORT_MMSI environment variable is missing.")
            /\ UNCHANGED <<sent, delivery, stdout>>
       ELSE /\ sent' = Append(sent, Email(LastPlacemark(placemarks), env))
            /\ \E d \in DeliveryOutcomes :
                /\ delivery' = d
                /\ CASE d = "ok" ->
                            \* resolve(json)
                            /\ stdout' = stdout \o <<">", "L", "D", "\n">>
                            /\ pc' = "done"
                            /\ error' = error
                     [] d = "errorInCall" ->
                            \* the throw leaves the executor: the promise rejects
                            /\ stdout' = Append(stdout, ">")
                            /\ Throw(DeliveryError)
                     [] d = "errorLater" ->
                            \* the throw leaves the callback into the transport's
                            \* stack; resolve is never called and nothing rejects
                            /\ stdout' = Append(stdout, ">")
                            /\ pc' = "pending"
                            /\ error' = error
    /\ UNCHANGED <<env, httpResult, lookupCalls, lastMTUpdate, feedCalls,
                   feedArg, vesselKml, extraction, placemarks>>

Next ==
    \/ GetMMSI
    \/ GetLatestPositionTime
    \/ GetVesselKml
    \/ ParseKmlToPlacemarks
    \/ SendSelfReport

Spec == Init /\ [][Next]_vars

----------------------------------------------------------------------------
(* Properties *)

\* The placemark element carries an ExtendedData container.
Qualifying(p) == p.extendeddata

\* The required properties the placemark element has no Data child for.
Lacking(p) ==
    { n \in RequiredNames :
        ~ \E k \in 1..Len(p.data) : p.data[k].name = n /\ p.data[k].value # "" }

Extracted == extraction # "none"

Elements == vesselKml.placemarks

\* A segment of document -> folder -> placemark is absent in the document.
PathAbsent ==
    \/ vesselKml.level \in {"empty", "nodocument", "nofolder"}
    \/ vesselKml.level = "folder" /\ Elements = <<>>

\* C1: when the checkpoint resolver yields no value, the run aborts before
\* the feed fetch: the route-feed provider is never called with an absent
\* checkpoint and no notification is sent.
C1_AbsentCheckpointIsFatal ==
    (lookupCalls > 0 /\ lastMTUpdate = Undefined) =>
        /\ feedCalls = 0
        /\ sent = <<>>
        /\ pc \notin {"parseKmlToPlacemarks", "sendSelfReport", "done", "pending"}

\* C2: when the email transport reports a delivery error, synchronize ends by
\* rejecting with that error; it neither succeeds nor stays pending.
C2_DeliveryErrorRejects ==
    delivery \in {"errorInCall", "errorLater"} =>
        pc = "rejected" /\ error = DeliveryError

\* C3: a document whose folder holds N >= 1 placemarks, all with an
\* ExtendedData container and every required property, yields exactly N
\* records in document order, for N = 1 as for N > 1.
C3_ExactlyNRecordsInOrder ==
    ( /\ Extracted
      /\ vesselKml.level = "folder"
      /\ Len(Elements) >= 1
      /\ \A k \in 1..Len(Elements) :
            Qualifying(Elements[k]) /\ Lacking(Elements[k]) = {} ) =>
        /\ extraction = "resolved"
        /\ Len(placemarks) = Len(Elements)
        /\ \A k \in 1..Len(placemarks) : placemarks[k].id = PropValue("Id", k)

\* C4: if a placemark with an ExtendedData container lacks a required
\* property, extraction fails for the whole document with an error naming a
\* missing property, no record is returned and no notification is sent.
C4_MissingPropertyFailsNamed ==
    ( /\ Extracted
      /\ \E k \in 1..Len(Elements) :
            Qualifying(Elements[k]) /\ Lacking(Elements[k]) # {} ) =>
        /\ extraction = "rejected"
        /\ placemarks = <<>>
        /\ sent = <<>>
        /\ \E k \in 1..Len(Elements) : \E n \in Lacking(Elements[k]) :
                Qualifying(Elements[k]) /\ error = MissingPropertyError(n)

\* C5: a parsed document in which a segment of document -> folder ->
\* placemark is absent (the empty parse result included) yields the empty
\* sequence and no error.
C5_AbsentPathYieldsEmpty ==
    (Extracted /\ PathAbsent) =>
        /\ extraction = "resolved"
        /\ placemarks = <<>>
        /\ error = NoError
        /\ pc = "done"

C5_Witness ==
    /\ extraction = "resolved"
    /\ vesselKml.level = "nofolder"
    /\ pc = "done"

\* C6: with the configuration complete and a non-empty extraction of N
\* records, the notifier is invoked exactly once and the message is built
\* from the N-th record and from no other.
C6_OneReportFromLastRecord ==
    /\ Len(sent) <= 1
    /\ ( /\ extraction = "resolved"
         /\ Len(placemarks) > 0
         /\ env.REPORT_SENDER
         /\ pc \in {"done", "rejected", "pending"} ) =>
            /\ Len(sent) = 1
            /\ sent[1].text.LAT = placemarks[Len(placemarks)].latitude
            /\ sent[1].text.LON = placemarks[Len(placemarks)].longitude
            /\ \A j \in 1..(Len(placemarks) - 1) :
                    /\ sent[1].text.LAT # placemarks[j].latitude
                    /\ sent[1].text.LON # placemarks[j].longitude

C6_Witness ==
    /\ pc = "done"
    /\ delivery = "ok"
    /\ Len(placemarks) = 2
    /\ Len(sent) = 1
    /\ sent[1].text.LAT = PropValue("Latitude", 2)

\* C7: a feed with zero qualifying placemarks, whatever the number of
\* placemarks, lets synchronize complete successfully without a notification.
C7_NoQualifyingCompletes ==
    ( /\ Extracted
      /\ vesselKml.level # "malformed"
      /\ \A k \in 1..Len(Elements) : ~Qualifying(Elements[k]) ) =>
        /\ pc = "done"
        /\ error = NoError
        /\ sent = <<>>

\* C8: the resolver returns the sentinel for every response that is not a
\* not-found response, and for a not-found response the UTC time of the
\* datetime attribute of the second time element.
C8_SentinelUnlessNotFound ==
    (lookupCalls > 0 /\ httpResult.kind = "response") =>
        IF httpResult.statusCode # 404
        THEN lastMTUpdate = Sentinel
        ELSE Len(httpResult.times) >= 2 =>
                lastMTUpdate = httpResult.times[2] \o " UTC"

\* C9: a placemark with an ExtendedData container and all ten required
\* properties but no visibility element does not make extraction fail.
C9_VisibilityNotRequired ==
    ( /\ Extracted
      /\ \E k \in 1..Len(Elements) :
            /\ Qualifying(Elements[k])
            /\ Lacking(Elements[k]) = {}
            /\ Elements[k].visibility = Undefined ) =>
        error # VisibilityTypeError

\* C10: the stages run in the linear order, each remote call at most once,
\* a later stage only after every earlier one completed without error, and
\* without REPORT_MMSI the run fails before any remote call.
C10_LinearOrder ==
    /\ lookupCalls <= 1 /\ feedCalls <= 1 /\ Len(sent) <= 1
    /\ feedCalls > 0 => (lookupCalls = 1 /\ lastMTUpdate # Undefined)
    /\ Extracted => feedCalls = 1
    /\ Len(sent) > 0 => extraction = "resolved"
    /\ ~env.REPORT_MMSI =>
            /\ lookupCalls = 0 /\ feedCalls = 0 /\ sent = <<>>
            /\ pc \in {"start", "rejected"}

====
